---------------------------- MODULE Spec2Model ----------------------------
(***************************************************************************)
(* Model of langchain_google_vertexai/model_garden_maas/_base.py:          *)
(* model-family resolution, construction-time validation, URL selection,  *)
(* and the synchronous / asynchronous completion dispatch with its retry   *)
(* policy and server-sent-event decoding, the token helper.                *)
(*                                                                         *)
(* Python strings are sequences of one-character strings, response bodies  *)
(* are sequences of byte values, dicts are functions from keys to values;  *)
(* the keyword arguments of a call are dict objects at addresses of heap.  *)
(***************************************************************************)
EXTENDS Integers, Sequences, FiniteSets, TLC

VARIABLES requested, llm, urlq, calls, heap, baseq, tokenq, revalidated

vars == <<requested, llm, urlq, calls, heap, baseq, tokenq, revalidated>>

\* What the direct calls of the model's methods and helpers returned last.
queries == <<urlq, baseq, tokenq, revalidated>>

(***************************************************************************)
(* Bounds of the model.                                                    *)
(***************************************************************************)
MaxRetriesBound == 2

MaxEvents == 4

PairMaxEvents == 1

(***************************************************************************)
(* Strings.                                                                *)
(***************************************************************************)
Uppers ==
    <<"A", "B", "C", "D", "E", "F", "G", "H", "I", "J", "K", "L", "M",
      "N", "O", "P", "Q", "R", "S", "T", "U", "V", "W", "X", "Y", "Z">>

Lowers ==
    <<"a", "b", "c", "d", "e", "f", "g", "h", "i", "j", "k", "l", "m",
      "n", "o", "p", "q", "r", "s", "t", "u", "v", "w", "x", "y", "z">>

\* str.lower() on one character.
LowerChar(c) ==
    IF \E i \in 1..Len(Uppers) : Uppers[i] = c
    THEN Lowers[CHOOSE i \in 1..Len(Uppers) : Uppers[i] = c]
    ELSE c

\* str.upper() on one character (used to build the upper- and mixed-case inputs).
UpperChar(c) ==
    IF \E i \in 1..Len(Lowers) : Lowers[i] = c
    THEN Uppers[CHOOSE i \in 1..Len(Lowers) : Lowers[i] = c]
    ELSE c

\* value.lower()
StrLower(s) == [i \in 1..Len(s) |-> LowerChar(s[i])]

StrUpper(s) == [i \in 1..Len(s) |-> UpperChar(s[i])]

\* The string with its k-th character upper-cased.
CapAt(s, k) == [i \in 1..Len(s) |-> IF i = k THEN UpperChar(s[i]) ELSE s[i]]

\* The proper prefixes of a string, the empty one included.
ProperPrefixes(s) == {SubSeq(s, 1, k) : k \in 0..(Len(s) - 1)}

Chars(s) == {s[i] : i \in 1..Len(s)}

LlamaName ==
    <<"m", "e", "t", "a", "/", "l", "l", "a", "m", "a", "3", "-", "4", "0", "5", "b", "-", "i", "n", "s", "t", "r", "u", "c", "t", "-", "m", "a", "a", "s">>

MistralNemoName ==
    <<"m", "i", "s", "t", "r", "a", "l", "-", "n", "e", "m", "o", "@", "2", "4", "0", "7">>

MistralLargeName ==
    <<"m", "i", "s", "t", "r", "a", "l", "-", "l", "a", "r", "g", "e", "@", "2", "4", "0", "7">>

MistralUrlPrefix ==
    <<"p", "u", "b", "l", "i", "s", "h", "e", "r", "s", "/", "m", "i", "s", "t", "r", "a", "l", "a", "i", "/", "m", "o", "d", "e", "l", "s", "/">>

StreamRawPredict ==
    <<":", "s", "t", "r", "e", "a", "m", "R", "a", "w", "P", "r", "e", "d", "i", "c", "t">>

RawPredict ==
    <<":", "r", "a", "w", "P", "r", "e", "d", "i", "c", "t">>

OpenApiPath ==
    <<"o", "p", "e", "n", "a", "p", "i", "/", "c", "h", "a", "t", "/", "c", "o", "m", "p", "l", "e", "t", "i", "o", "n", "s">>

HttpsScheme ==
    <<"h", "t", "t", "p", "s", ":", "/", "/">>

AiplatformHost ==
    <<"-", "a", "i", "p", "l", "a", "t", "f", "o", "r", "m", ".", "g", "o", "o", "g", "l", "e", "a", "p", "i", "s", ".", "c", "o", "m", "/">>

ProjectsSegment ==
    <<"/", "p", "r", "o", "j", "e", "c", "t", "s", "/">>

LocationsSegment ==
    <<"/", "l", "o", "c", "a", "t", "i", "o", "n", "s", "/">>

VersionBeta ==
    <<"v", "1", "b", "e", "t", "a", "1">>

VersionStable ==
    <<"v", "1">>

\* What an f-string renders for a field that holds None.
PyNone ==
    <<"N", "o", "n", "e">>

(***************************************************************************)
(* Dicts.                                                                  *)
(***************************************************************************)
\* d[k] = v on a dict.
Put(d, k, v) == [x \in (DOMAIN d) \cup {k} |-> IF x = k THEN v ELSE d[x]]

\* d.pop(k, None): the dict without the key.
Pop(d, k) == [x \in (DOMAIN d) \ {k} |-> d[x]]

(***************************************************************************)
(* VertexMaaSModelFamily: a str-mixin Enum whose members are numbered by   *)
(* auto(), so the members' values are the strings "1" and "2".             *)
(***************************************************************************)
EnumValueLLAMA == <<"1">>

EnumValueMISTRAL == <<"2">>

llama_models == {LlamaName}

mistral_models == {MistralNemoName, MistralLargeName}

Resolved(f) == [family |-> f, error |-> "none"]

Unsupported == [family |-> "none", error |-> "ValueError"]

\* VertexMaaSModelFamily._missing_(value)
MissingNoLower(value) ==
    IF value \in llama_models THEN Resolved("LLAMA")
    ELSE IF value \in mistral_models THEN Resolved("MISTRAL")
    ELSE Unsupported

Missing(value) ==
    LET model_name == StrLower(value)
    IN  IF model_name \in llama_models THEN Resolved("LLAMA")
        ELSE IF model_name \in mistral_models THEN Resolved("MISTRAL")
        ELSE Unsupported

\* VertexMaaSModelFamily(value): Enum looks the value up among the members'
\* values first and calls _missing_ only when no member has it.
VertexMaaSModelFamily(value) ==
    IF value = EnumValueLLAMA THEN Resolved("LLAMA")
    ELSE IF value = EnumValueMISTRAL THEN Resolved("MISTRAL")
    ELSE Missing(value)

\* s.split("@")[0]: the part of s before its first "@", all of s without one.
RECURSIVE SplitAtHead(_)
SplitAtHead(s) ==
    IF s = <<>> \/ Head(s) = "@" THEN <<>>
    ELSE <<Head(s)>> \o SplitAtHead(Tail(s))

\* The MISTRAL branch of validate_environment_model_garden.
MistralNamesSwapped(values) ==
    Put(Put(values, "full_model_name", SplitAtHead(values["model_name"])),
        "model_name", values["model_name"])

MistralNames(values) ==
    LET model == SplitAtHead(values["model_name"])
    IN  Put(Put(values, "full_model_name", values["model_name"]),
            "model_name", model)

\* validate_environment_model_garden(values): the validated values, or the
\* resolver's error.
ValidateEnvironment(values) ==
    LET r == VertexMaaSModelFamily(values["model_name"])
    IN  IF r.error # "none"
        THEN [ok |-> FALSE, error |-> r.error, values |-> values]
        ELSE LET tagged == Put(values, "model_family", r.family)
             IN  [ok |-> TRUE, error |-> "none",
                  values |-> IF r.family = "MISTRAL"
                             THEN MistralNames(tagged)
                             ELSE tagged]

\* The model object: its fields read as pydantic populates them.
ModelFamilyOf(m) == m.values["model_family"]

ModelNameOf(m) == m.values["model_name"]

FullModelNameOf(m) ==
    IF "full_model_name" \in DOMAIN m.values
    THEN m.values["full_model_name"]
    ELSE PyNone

\* _get_url_part(self, stream)
GetUrlPartIgnoringStream(m, stream) ==
    IF ModelFamilyOf(m) = "MISTRAL"
    THEN MistralUrlPrefix \o FullModelNameOf(m) \o RawPredict
    ELSE OpenApiPath

GetUrlPart(m, stream) ==
    IF ModelFamilyOf(m) = "MISTRAL"
    THEN IF stream
         THEN MistralUrlPrefix \o FullModelNameOf(m) \o StreamRawPredict
         ELSE MistralUrlPrefix \o FullModelNameOf(m) \o RawPredict
    ELSE OpenApiPath

LocationOf(m) == m.values["location"]

ProjectOf(m) == m.values["project"]

\* get_url(self)
GetUrlOneVersion(m) ==
    HttpsScheme \o LocationOf(m) \o AiplatformHost \o VersionStable
       \o ProjectsSegment \o ProjectOf(m) \o LocationsSegment \o LocationOf(m)

GetUrl(m) ==
    LET version == IF ModelFamilyOf(m) = "LLAMA" THEN VersionBeta ELSE VersionStable
    IN  HttpsScheme \o LocationOf(m) \o AiplatformHost \o version
           \o ProjectsSegment \o ProjectOf(m) \o LocationsSegment \o LocationOf(m)

(***************************************************************************)
(* Bytes, text and JSON, over the characters the explored bodies use.      *)
(***************************************************************************)
\* chr(code point): the characters of the explored bodies.
CodePointChar ==
    (34 :> "\"") @@ (58 :> ":") @@ (97 :> "a") @@ (98 :> "b") @@ (99 :> "c")
    @@ (101 :> "e") @@ (109 :> "m") @@ (111 :> "o") @@ (116 :> "t")
    @@ (120 :> "x") @@ (123 :> "{") @@ (125 :> "}") @@ (233 :> "U+00E9")

DecodeFailed == [ok |-> FALSE, text |-> <<>>]

\* bytes.decode("utf-8"), strict, for one- and two-byte sequences: a lone
\* continuation byte, a truncated sequence or a byte no sequence starts with
\* raises UnicodeDecodeError.
RECURSIVE Utf8Decode(_)
Utf8Decode(b) ==
    IF b = <<>> THEN [ok |-> TRUE, text |-> <<>>]
    ELSE IF b[1] < 128
    THEN LET r == Utf8Decode(Tail(b))
         IN  IF r.ok THEN [ok |-> TRUE, text |-> <<CodePointChar[b[1]]>> \o r.text]
             ELSE DecodeFailed
    ELSE IF /\ b[1] >= 194 /\ b[1] <= 223
            /\ Len(b) >= 2 /\ b[2] >= 128 /\ b[2] <= 191
    THEN LET r == Utf8Decode(SubSeq(b, 3, Len(b)))
         IN  IF r.ok
             THEN [ok |-> TRUE,
                   text |-> <<CodePointChar[(b[1] - 192) * 64 + (b[2] - 128)]>> \o r.text]
             ELSE DecodeFailed
    ELSE DecodeFailed

JsonHead ==
    <<"{", "\"", "t", "e", "x", "t", "\"", ":", "\"">>

JsonTail ==
    <<"\"", "}">>

JsonFailed == [ok |-> FALSE, value |-> [text |-> <<>>]]

\* json.loads on a text: the objects {"text":"<one letter>"} decode to a
\* record, every other explored text is no JSON document.
JsonLoads(t) ==
    IF /\ Len(t) = Len(JsonHead) + 1 + Len(JsonTail)
       /\ SubSeq(t, 1, Len(JsonHead)) = JsonHead
       /\ SubSeq(t, Len(JsonHead) + 2, Len(t)) = JsonTail
       /\ t[Len(JsonHead) + 1] \notin {"\"", "{", "}", ":"}
    THEN [ok |-> TRUE, value |-> [text |-> <<t[Len(JsonHead) + 1]>>]]
    ELSE JsonFailed

(***************************************************************************)
(* Errors.                                                                 *)
(***************************************************************************)
NoError == [type |-> "none", status |-> 0, url |-> <<>>, text |-> <<>>]

Error(t) == [type |-> t, status |-> 0, url |-> <<>>, text |-> <<>>]

\* The direct base class of each exception class that can occur.
BaseClass ==
    [ConnectError |-> "TransportError", ReadError |-> "TransportError",
     TransportError |-> "RequestError", RequestError |-> "HTTPError",
     HTTPStatusError |-> "HTTPError", HTTPError |-> "Exception",
     StreamError |-> "RuntimeError", RuntimeError |-> "Exception",
     JSONDecodeError |-> "ValueError", UnicodeDecodeError |-> "ValueError",
     RefreshError |-> "GoogleAuthError",
     DefaultCredentialsError |-> "GoogleAuthError",
     GoogleAuthError |-> "Exception",
     ValueError |-> "Exception", CancelledError |-> "BaseException",
     GeneratorExit |-> "BaseException", Exception |-> "BaseException"]

RECURSIVE IsInstance(_, _)
IsInstance(t, cls) ==
    \/ t = cls
    \/ t \in DOMAIN BaseClass /\ IsInstance(BaseClass[t], cls)

\* httpx.codes.is_error(status_code)
IsErrorStatus(status) == status >= 400 /\ status <= 599

\* _raise_on_error(response): the error it raises, NoError when it returns.
RaiseOnError(response) ==
    IF IsErrorStatus(response.status)
    THEN LET error_message == Utf8Decode(response.body)
         IN  IF error_message.ok
             THEN [type |-> "HTTPStatusError", status |-> response.status,
                   url |-> response.url, text |-> error_message.text]
             ELSE Error("UnicodeDecodeError")
    ELSE NoError

\* _araise_on_error(response)
ARaiseOnError(response) ==
    IF IsErrorStatus(response.status)
    THEN LET error_message == Utf8Decode(response.body)
         IN  IF error_message.ok
             THEN [type |-> "HTTPStatusError", status |-> response.status,
                   url |-> response.url, text |-> error_message.text]
             ELSE Error("UnicodeDecodeError")
    ELSE NoError

\* response.json(): the body decoded and parsed.
ResponseJson(response) ==
    LET t == Utf8Decode(response.body)
    IN  IF ~t.ok THEN [ok |-> FALSE, error |-> Error("UnicodeDecodeError"),
                       value |-> JsonFailed.value]
        ELSE LET j == JsonLoads(t.text)
             IN  IF j.ok THEN [ok |-> TRUE, error |-> NoError, value |-> j.value]
                 ELSE [ok |-> FALSE, error |-> Error("JSONDecodeError"),
                       value |-> JsonFailed.value]

\* _create_retry_decorator: the error types the retry loop re-attempts on.
RetryErrors == {"RequestError", "StreamError"}

Retryable(t) == \E cls \in RetryErrors : IsInstance(t, cls)

\* The retry loop after the attempt_number-th attempt raised an error of type
\* t: stop_after_attempt(max_retries) with reraise.
RetryAgain(t, attempt_number, max_retries) ==
    Retryable(t) /\ attempt_number < max_retries

(***************************************************************************)
(* _get_token                                                              *)
(***************************************************************************)
\* credentials.token: None, or a string.
TokenNone == [none |-> TRUE, text |-> <<>>]

TokenText(t) == [none |-> FALSE, text |-> t]

\* not credentials.token
FalsyOnlyNone(token) == token.none

Falsy(token) == token.none \/ token.text = <<>>

MissingTokenMessage ==
    <<"C", "o", "u", "l", "d", "n", "'", "t", " ", "r", "e", "t", "r", "i", "e", "v", "e", " ", "a", " ", "t", "o", "k", "e", "n", "!">>

\* A run of _get_token: the credentials it used, how often each credentials
\* object was refreshed, whether the refresh returned, the token the used
\* credentials hold, and what the run returned or raised.
NoTokenRun ==
    [pc |-> "idle", supplied |-> FALSE, used |-> "none",
     refreshes |-> [supplied |-> 0, default |-> 0], refreshed |-> FALSE,
     held |-> TokenNone, result |-> <<>>, error |-> NoError]

\* _get_token(credentials). found: auth.default() finds credentials;
\* outcome: credentials.refresh(request) raises, or leaves a token.
GetTokenRun(supplied, found, outcome) ==
    LET used == IF supplied THEN "supplied" ELSE "default"
        start == [NoTokenRun EXCEPT !.supplied = supplied]
    IN  IF ~supplied /\ ~found
        THEN [start EXCEPT !.pc = "raised", !.error = Error("DefaultCredentialsError")]
        ELSE LET called == [start EXCEPT !.used = used, !.refreshes[used] = @ + 1]
             IN  IF outcome.kind = "raises"
                 THEN [called EXCEPT !.pc = "raised", !.error = Error("RefreshError")]
                 ELSE LET got == [called EXCEPT !.refreshed = TRUE,
                                                !.held = outcome.token]
                      IN  IF Falsy(outcome.token)
                          THEN [got EXCEPT !.pc = "raised",
                                           !.error = [Error("ValueError") EXCEPT
                                                         !.text = MissingTokenMessage]]
                          ELSE [got EXCEPT !.pc = "returned",
                                           !.result = outcome.token.text]

(***************************************************************************)
(* Objects. Every dict and every list is an object at an address; its      *)
(* items are immediate values (vals: booleans, strings) or references to   *)
(* other objects (refs). owner is the frame that created the object: the   *)
(* caller of the module, or the call that runs. Every frame takes its new   *)
(* addresses from its own residue class, so that an address says nothing   *)
(* about the order in which concurrent calls ran.                          *)
(***************************************************************************)
CallIds == {1, 2}

CallerOwned == 0

Frames == Cardinality(CallIds) + 1

DictObject(owner, vals, refs) ==
    [kind |-> "dict", owner |-> owner, vals |-> vals, refs |-> refs]

ListObject(owner, refs) ==
    [kind |-> "list", owner |-> owner, vals |-> <<>>, refs |-> refs]

\* The addresses of a frame.
Region(owner, upto) == {a \in 1..upto : a % Frames = owner}

\* The address of the i-th object a frame creates next: one no live object
\* has.
NewAddrShared(h, owner, i) == (i - 1) * Frames + 1

NewAddr(h, owner, i) ==
    CHOOSE a \in Region(owner, (Cardinality(DOMAIN h) + i) * Frames) :
        /\ a \notin DOMAIN h
        /\ Cardinality({b \in Region(owner, a) : b \notin DOMAIN h}) = i

\* Objects nothing refers to any more are reclaimed.
Free(h, gone) == [a \in (DOMAIN h) \ gone |-> h[a]]

\* The objects an object reaches through its items, itself included.
RECURSIVE Reach(_, _)
Reach(h, a) ==
    {a} \cup UNION {Reach(h, h[a].refs[k]) : k \in DOMAIN h[a].refs}

\* The value the object at an address stands for: what is serialised when
\* the object is handed over as json=... .
RECURSIVE ValueAt(_, _)
ValueAt(h, a) ==
    LET o == h[a]
    IN  IF o.kind = "list"
        THEN [i \in DOMAIN o.refs |-> ValueAt(h, o.refs[i])]
        ELSE [k \in (DOMAIN o.vals) \cup (DOMAIN o.refs) |->
                 IF k \in DOMAIN o.refs THEN ValueAt(h, o.refs[k]) ELSE o.vals[k]]

\* k in d
HasKey(h, a, k) == k \in (DOMAIN h[a].vals) \cup (DOMAIN h[a].refs)

\* d[k] = v for an immediate v, on the object itself.
SetItem(h, a, k, v) ==
    [h EXCEPT ![a] = [@ EXCEPT !.vals = Put(@, k, v), !.refs = Pop(@, k)]]

\* d.pop(k, None), on the object itself.
PopItemKeeps(h, a, k) == h

PopItem(h, a, k) ==
    [h EXCEPT ![a] = [@ EXCEPT !.vals = Pop(@, k), !.refs = Pop(@, k)]]

\* f(**d): the callee's kwargs is a new dict with the items of d; the values
\* the items refer to are shared with d.
Unpack(h, a, owner) ==
    LET n == NewAddr(h, owner, 1)
    IN  [heap |-> (n :> [h[a] EXCEPT !.owner = owner]) @@ h, addr |-> n]

\* copy.deepcopy(d): a new object for d and for every object d reaches.
DeepCopyAlias(h, a, owner) == [heap |-> h, addr |-> a]

DeepCopy(h, a, owner) ==
    LET reached == Reach(h, a)
        memo == [x \in reached |-> NewAddr(h, owner, Cardinality({y \in reached : y <= x}))]
        copies == [n \in {memo[x] : x \in reached} |->
                      LET x == CHOOSE y \in reached : memo[y] = n
                      IN  [h[x] EXCEPT !.owner = owner,
                                       !.refs = [k \in DOMAIN @ |-> memo[@[k]]]]]
    IN  [heap |-> copies @@ h, addr |-> memo[a]]

\* _enrich_params(self, params): the heap after the call and the address of
\* the dict it returns.
EnrichParams(h, m, params, owner) ==
    LET copy_params == DeepCopy(h, params, owner)
        popped == PopItem(copy_params.heap, copy_params.addr, "safe_prompt")
    IN  [heap |-> SetItem(popped, copy_params.addr, "model", ModelNameOf(m)),
         addr |-> copy_params.addr]

\* if "stream" not in kwargs: kwargs["stream"] = False
DefaultStreamOn(h, kwargs) ==
    IF HasKey(h, kwargs, "stream") THEN h ELSE SetItem(h, kwargs, "stream", TRUE)

DefaultStream(h, kwargs) ==
    IF HasKey(h, kwargs, "stream") THEN h ELSE SetItem(h, kwargs, "stream", FALSE)

(***************************************************************************)
(* Inputs.                                                                 *)
(***************************************************************************)
AllowListed == llama_models \cup mistral_models

CaseVariants ==
    UNION {{StrUpper(n)} \cup {CapAt(n, k) : k \in 1..Len(n)} : n \in AllowListed}

OtherNames ==
    {EnumValueLLAMA, EnumValueMISTRAL, <<"3">>,
     <<"L", "L", "A", "M", "A">>, <<"M", "I", "S", "T", "R", "A", "L">>,
     MistralLargeName \o <<"@", "x">>, <<"@">> \o MistralNemoName,
     LlamaName \o <<"s">>}

\* Every identifier the resolver is tried on.
Names ==
    AllowListed \cup CaseVariants \cup OtherNames
    \cup UNION {ProperPrefixes(n) : n \in AllowListed}

\* The identifiers the dispatch is explored with.
DispatchNames == {LlamaName, CapAt(MistralLargeName, 1)}

PresetFullName == <<"p", "r", "e", "s", "e", "t">>

\* The location and project a model is constructed with.
SiteUs == ("location" :> <<"u", "s">>) @@ ("project" :> <<"p", "1">>)

SiteEu == ("location" :> <<"e", "u">>) @@ ("project" :> <<"p", "2">>)

Sites == {SiteUs, SiteEu}

\* The constructor's keyword arguments for a model name.
ConstructorValues(n) ==
    {("model_name" :> n), ("model_name" :> n) @@ ("full_model_name" :> PresetFullName)}

\* resolutions counts the runs of the root validator, and so of the
\* resolver, on behalf of the model.
NewModel(retries) ==
    [phase |-> "new", values |-> <<>>, max_retries |-> retries, error |-> "none",
     resolutions |-> 0]

\* What refreshing credentials may do.
RefreshOutcomes ==
    {[kind |-> "raises", token |-> TokenNone]}
    \cup {[kind |-> "token", token |-> t] :
             t \in {TokenNone, TokenText(<<>>), TokenText(<<"t", "0", "k">>)}}

\* No second validation was run.
NotRevalidated == [asked |-> FALSE, ok |-> FALSE, error |-> "none", values |-> <<>>]

NoQuery == [asked |-> FALSE, stream |-> FALSE, result |-> <<>>]

DoneSentinel ==
    <<"[", "D", "O", "N", "E", "]">>

BadJson ==
    <<"{", "b", "a", "d">>

JsonText(x) == JsonHead \o <<x>> \o JsonTail

\* Response bodies: a JSON document, a plain text, a two-byte character, and
\* a byte sequence that is not UTF-8.
BodyJsonA ==
    <<123, 34, 116, 101, 120, 116, 34, 58, 34, 97, 34, 125>>

BodyBoom ==
    <<98, 111, 111, 109>>

BodyAccent ==
    <<195, 169>>

BodyBadUtf8 ==
    <<255>>

\* What the event source delivers next: an event, or a transport failure
\* of the read.
Ev(d) == [kind |-> "event", data |-> d]

ReadFails == [kind |-> "reset", data |-> <<>>]

Message == <<[role |-> "user", content |-> "hi"]>>

OtherModel == <<"o", "t", "h", "e", "r">>

PlainParams == ("messages" :> Message)

StreamParams == ("messages" :> Message) @@ ("stream" :> TRUE)

\* The keyword arguments callers pass.
MainParams ==
    {PlainParams, StreamParams,
     ("messages" :> Message) @@ ("stream" :> FALSE),
     ("messages" :> Message) @@ ("safe_prompt" :> TRUE) @@ ("model" :> OtherModel),
     ("messages" :> Message) @@ ("stream" :> TRUE) @@ ("safe_prompt" :> FALSE)
        @@ ("model" :> OtherModel)}

\* What callers pass and what the transport and the server may do.
MainEnv ==
    [params |-> MainParams,
     statuses |-> {200, 404, 500},
     bodies |-> {BodyJsonA, BodyBoom, BodyAccent, BodyBadUtf8},
     items |-> {Ev(DoneSentinel), Ev(JsonText("a")), Ev(JsonText("b")),
                Ev(BadJson), ReadFails},
     maxEvents |-> MaxEvents]

PairEnv ==
    [params |-> {PlainParams, StreamParams},
     statuses |-> {200, 500},
     bodies |-> {BodyJsonA, BodyBoom},
     items |-> {Ev(DoneSentinel), Ev(JsonText("a"))},
     maxEvents |-> PairMaxEvents]

\* The objects the caller holds before any call: one parameter mapping per
\* explored mapping, all passing the same list of messages.
ParamsOrder(params) ==
    CHOOSE f \in [1..Cardinality(params) -> params] :
        \A i, j \in DOMAIN f : f[i] = f[j] => i = j

CallerAddr(i) == i * Frames

CallerRoots(env) == {CallerAddr(i) : i \in 1..Cardinality(env.params)}

CallerHeap(env) ==
    LET n == Cardinality(env.params)
        order == ParamsOrder(env.params)
    IN  [a \in {CallerAddr(i) : i \in 1..(n + 2)} |->
            IF a \in CallerRoots(env)
            THEN DictObject(CallerOwned, Pop(order[a \div Frames], "messages"),
                            ("messages" :> CallerAddr(n + 1)))
            ELSE IF a = CallerAddr(n + 1)
            THEN ListObject(CallerOwned, <<CallerAddr(n + 2)>>)
            ELSE DictObject(CallerOwned, Message[1], <<>>)]

\* The caller's objects of the two explored environments.
MainHeap == CallerHeap(MainEnv)

PairHeap == CallerHeap(PairEnv)

TransportFails == [kind |-> "transport", status |-> 0, body |-> <<>>, source |-> <<>>]

\* The outcomes of a plain POST.
PostOutcomes(env) ==
    {TransportFails}
    \cup {[kind |-> "response", status |-> s, body |-> b, source |-> <<>>] :
             s \in env.statuses, b \in env.bodies}

Sources(env) == UNION {[1..n -> env.items] : n \in 0..env.maxEvents}

\* The outcomes of opening an SSE connection: no connection, an error status
\* with a body, or a 200 response followed by the events of a source.
StreamOutcomes(env) ==
    {TransportFails}
    \cup {[kind |-> "response", status |-> s, body |-> b, source |-> <<>>] :
             s \in {x \in env.statuses : IsErrorStatus(x)}, b \in env.bodies}
    \cup {[kind |-> "response", status |-> 200, body |-> <<>>, source |-> src] :
             src \in Sources(env)}

NoResult == [kind |-> "none", value |-> JsonFailed.value, error |-> NoError]

StreamResult == [kind |-> "stream", value |-> JsonFailed.value, error |-> NoError]

RecordResult(v) == [kind |-> "record", value |-> v, error |-> NoError]

ErrorResult(e) == [kind |-> "error", value |-> JsonFailed.value, error |-> e]

\* A dict was returned: it is at the address the call keeps as kwargs.
ParamsResult == [kind |-> "params", value |-> JsonFailed.value, error |-> NoError]

\* A call slot: no call in progress.
IdleCall ==
    [pc |-> "idle", mode |-> "none", arg |-> 0, params |-> <<>>, kwargs |-> 0,
     inner |-> 0, stream |-> FALSE, tries |-> 0, world |-> <<>>, sent |-> <<>>,
     result |-> NoResult, gen |-> "none", conn |-> "none", opens |-> 0,
     closes |-> 0, cursor |-> 0, yielded |-> <<>>, fault |-> NoError,
     ended |-> "none"]

(***************************************************************************)
(* Construction: the root validator runs once, before the fields are set.  *)
(***************************************************************************)
Construct ==
    /\ llm.phase = "new"
    /\ LET v == ValidateEnvironment(requested)
       IN  llm' = IF v.ok
                  THEN [llm EXCEPT !.phase = "ready", !.values = v.values,
                                   !.resolutions = @ + 1]
                  ELSE [llm EXCEPT !.phase = "failed", !.error = v.error,
                                   !.resolutions = @ + 1]
    /\ UNCHANGED <<requested, calls, heap, queries>>

\* validate_environment_model_garden is applied to the values it produced
\* for the constructed model.
Revalidate ==
    /\ llm.phase = "ready"
    /\ LET v == ValidateEnvironment(llm.values)
       IN  revalidated' = [asked |-> TRUE, ok |-> v.ok, error |-> v.error,
                           values |-> v.values]
    /\ UNCHANGED <<requested, llm, calls, heap, urlq, baseq, tokenq>>

\* A caller asks for a token, with credentials of its own or without.
GetToken ==
    /\ \E supplied \in BOOLEAN, found \in BOOLEAN, outcome \in RefreshOutcomes :
          tokenq' = GetTokenRun(supplied, found, outcome)
    /\ UNCHANGED <<requested, llm, calls, heap, urlq, baseq, revalidated>>

\* A caller asks the constructed model for its base URL.
AskUrl ==
    /\ llm.phase = "ready"
    /\ baseq' = [asked |-> TRUE, stream |-> FALSE, result |-> GetUrl(llm)]
    /\ UNCHANGED <<requested, llm, calls, heap, urlq, tokenq, revalidated>>

\* A caller asks the constructed model for its URL path.
AskUrlPartResolving ==
    /\ llm.phase = "ready"
    /\ \E stream \in BOOLEAN :
          urlq' = [asked |-> TRUE, stream |-> stream,
                   result |-> GetUrlPart(llm, stream)]
    /\ llm' = [llm EXCEPT !.values = MistralNames(@), !.resolutions = @ + 1]
    /\ UNCHANGED <<requested, calls, heap, baseq, tokenq, revalidated>>

AskUrlPart ==
    /\ llm.phase = "ready"
    /\ \E stream \in BOOLEAN :
          urlq' = [asked |-> TRUE, stream |-> stream,
                   result |-> GetUrlPart(llm, stream)]
    /\ UNCHANGED <<requested, llm, calls, heap, baseq, tokenq, revalidated>>

(***************************************************************************)
(* One attempt of the non-streaming request.                               *)
(***************************************************************************)
ResponseOf(o, url) == [status |-> o.status, body |-> o.body, url |-> url]

\* client.post(...), the error check (raised: what it raises on the
\* response) and response.json(): what one attempt ends with.
AttemptOutcome(o, url, raised) ==
    IF o.kind = "transport"
    THEN [ok |-> FALSE, error |-> Error("ConnectError"), value |-> JsonFailed.value]
    ELSE IF raised.type # "none"
    THEN [ok |-> FALSE, error |-> raised, value |-> JsonFailed.value]
    ELSE ResponseJson(ResponseOf(o, url))

PostRequest(url, kwargs) ==
    [via |-> "post", url |-> url, json |-> kwargs, headers |-> <<>>]

SseRequest(url, kwargs) ==
    [via |-> "sse", url |-> url, json |-> kwargs,
     headers |-> ("Accept" :> "text/event-stream")]

(***************************************************************************)
(* llm._enrich_params(params), called on a mapping of the caller.          *)
(***************************************************************************)
EnrichCall(c, env) ==
    /\ llm.phase = "ready"
    /\ calls[c].pc = "idle"
    /\ \E params \in CallerRoots(env) :
          LET copy_params == EnrichParams(heap, llm, params, c)
          IN  /\ calls' = [calls EXCEPT ![c] =
                    [IdleCall EXCEPT !.mode = "enrich", !.arg = params,
                                     !.params = ValueAt(heap, params),
                                     !.kwargs = copy_params.addr,
                                     !.pc = "returned", !.result = ParamsResult]]
              /\ heap' = copy_params.heap
    /\ UNCHANGED <<requested, llm, queries>>

(***************************************************************************)
(* completion_with_retry                                                   *)
(***************************************************************************)
\* The call up to the request: the stream default, _enrich_params, and for a
\* streaming call the generator object, returned without running it.
SyncCallEager(c, env) ==
    /\ llm.phase = "ready"
    /\ calls[c].pc = "idle"
    /\ \E params \in CallerRoots(env) :
          LET passed == Unpack(heap, params, c)
              defaulted == DefaultStream(passed.heap, passed.addr)
              stream == defaulted[passed.addr].vals["stream"]
              kwargs == EnrichParams(defaulted, llm, passed.addr, c)
              request == SseRequest(GetUrlPart(llm, TRUE),
                                    ValueAt(kwargs.heap, kwargs.addr))
          IN  /\ calls' = [calls EXCEPT ![c] =
                    [IdleCall EXCEPT !.mode = "sync", !.arg = params,
                                     !.params = ValueAt(heap, params),
                                     !.kwargs = kwargs.addr, !.stream = stream,
                                     !.sent = IF stream THEN <<request>> ELSE <<>>,
                                     !.pc = IF stream THEN "returned" ELSE "post",
                                     !.result = IF stream THEN StreamResult ELSE NoResult,
                                     !.gen = IF stream THEN "created" ELSE "none"]]
              /\ heap' = Free(kwargs.heap, {passed.addr} \ {kwargs.addr})
    /\ UNCHANGED <<requested, llm, queries>>

SyncCall(c, env) ==
    /\ llm.phase = "ready"
    /\ calls[c].pc = "idle"
    /\ \E params \in CallerRoots(env) :
          LET passed == Unpack(heap, params, c)
              defaulted == DefaultStream(passed.heap, passed.addr)
              stream == defaulted[passed.addr].vals["stream"]
              kwargs == EnrichParams(defaulted, llm, passed.addr, c)
          IN  /\ calls' = [calls EXCEPT ![c] =
                    [IdleCall EXCEPT !.mode = "sync", !.arg = params,
                                     !.params = ValueAt(heap, params),
                                     !.kwargs = kwargs.addr, !.stream = stream,
                                     !.pc = IF stream THEN "returned" ELSE "post",
                                     !.result = IF stream THEN StreamResult ELSE NoResult,
                                     !.gen = IF stream THEN "created" ELSE "none"]]
              /\ heap' = Free(kwargs.heap, {passed.addr} \ {kwargs.addr})
    /\ UNCHANGED <<requested, llm, queries>>

\* llm.client.post, _raise_on_error, response.json(): one request, no loop.
SyncPost(c, env) ==
    /\ calls[c].pc = "post"
    /\ calls[c].mode = "sync"
    /\ \E o \in PostOutcomes(env) :
          LET call == calls[c]
              url == GetUrlPart(llm, FALSE)
              r == AttemptOutcome(o, url, RaiseOnError(ResponseOf(o, url)))
          IN  calls' = [calls EXCEPT ![c] =
                 [call EXCEPT !.tries = @ + 1,
                              !.sent = Append(@, PostRequest(url, ValueAt(heap, call.kwargs))),
                              !.world = Append(@, o),
                              !.pc = IF r.ok THEN "returned" ELSE "raised",
                              !.result = IF r.ok THEN RecordResult(r.value)
                                         ELSE ErrorResult(r.error)]]
    /\ UNCHANGED <<requested, llm, heap, queries>>

(***************************************************************************)
(* acompletion_with_retry                                                  *)
(***************************************************************************)
\* The retry decorator is built, the parameters are enriched, and the
\* decorated function is entered.
AsyncCall(c, env) ==
    /\ llm.phase = "ready"
    /\ calls[c].pc = "idle"
    /\ \E params \in CallerRoots(env) :
          LET passed == Unpack(heap, params, c)
              kwargs == EnrichParams(passed.heap, llm, passed.addr, c)
          IN  /\ calls' = [calls EXCEPT ![c] =
                    [IdleCall EXCEPT !.mode = "async", !.arg = params,
                                     !.params = ValueAt(heap, params),
                                     !.kwargs = kwargs.addr, !.pc = "attempt"]]
              /\ heap' = Free(kwargs.heap, {passed.addr} \ {kwargs.addr})
    /\ UNCHANGED <<requested, llm, queries>>

\* One run of _completion_with_retry under the retry loop. A streaming call
\* builds the SSE context manager and the generator and returns them; a
\* non-streaming call posts, and the loop re-runs it on a retryable error.
AsyncAttempt(c, env) ==
    /\ calls[c].pc = "attempt"
    /\ calls[c].mode = "async"
    /\ LET call == calls[c]
           passed == Unpack(heap, call.kwargs, c)
           kwargs == passed.addr
           defaulted == DefaultStream(passed.heap, kwargs)
           stream == defaulted[kwargs].vals["stream"]
           n == call.tries + 1
       IN  IF stream
           THEN /\ calls' = [calls EXCEPT ![c] =
                      [call EXCEPT !.tries = n, !.inner = kwargs, !.stream = TRUE,
                                   !.pc = "returned", !.result = StreamResult,
                                   !.gen = "created"]]
                /\ heap' = defaulted
           ELSE \E o \in PostOutcomes(env) :
                   LET url == GetUrlPart(llm, FALSE)
                       r == AttemptOutcome(o, url, ARaiseOnError(ResponseOf(o, url)))
                       again == ~r.ok /\ RetryAgain(r.error.type, n, llm.max_retries)
                   IN  /\ calls' = [calls EXCEPT ![c] =
                             [call EXCEPT !.tries = n,
                                          !.sent = Append(@, PostRequest(url,
                                                      ValueAt(defaulted, kwargs))),
                                          !.world = Append(@, o),
                                          !.pc = IF again THEN "attempt"
                                                 ELSE IF r.ok THEN "returned"
                                                 ELSE "raised",
                                          !.result = IF again THEN NoResult
                                                     ELSE IF r.ok THEN RecordResult(r.value)
                                                     ELSE ErrorResult(r.error)]]
                       /\ heap' = Free(defaulted, {kwargs})
    /\ UNCHANGED <<requested, llm, queries>>

(***************************************************************************)
(* The SSE generators: iter_sse (sync) and _aiter_sse (async).             *)
(***************************************************************************)
\* Leaving the with block releases the connection.
Released(call) == [call EXCEPT !.conn = "closed", !.closes = @ + 1]

\* The generator ends inside the with block.
Finished(call, how, e) ==
    [Released(call) EXCEPT !.gen = "finished", !.ended = how, !.fault = e]

\* Entering connect_sse / aconnect_sse: the request is sent with the dict
\* handed over as json=..., serialised now, and the response headers are
\* awaited.
SseOpen(call, o, url, json) ==
    LET started == [call EXCEPT !.sent = Append(@, SseRequest(url, json)),
                                !.world = Append(@, o), !.cursor = 0]
    IN  IF o.kind = "transport"
        THEN [started EXCEPT !.gen = "finished", !.ended = "error",
                             !.fault = Error("ConnectError")]
        ELSE [started EXCEPT !.conn = "open", !.opens = @ + 1, !.gen = "opened"]

\* event_source.response of the connection the call holds.
InitialResponse(call) ==
    ResponseOf(call.world[Len(call.world)], call.sent[Len(call.sent)].url)

\* The error check of the initial response (raised: what it raises).
SseCheck(call, raised) ==
    IF raised.type # "none" THEN Finished(call, "error", raised)
    ELSE [call EXCEPT !.gen = "reading"]

\* The body of iter_sse's for loop on one event.
IterSseEventSkipSentinel(call, event) ==
    LET j == JsonLoads(event.data)
    IN  IF event.data = DoneSentinel THEN [call EXCEPT !.gen = "reading"]
        ELSE IF j.ok
        THEN [call EXCEPT !.yielded = Append(@, j.value), !.gen = "suspended"]
        ELSE Finished(call, "error", Error("JSONDecodeError"))

IterSseEvent(call, event) ==
    IF event.data = DoneSentinel THEN Finished(call, "sentinel", NoError)
    ELSE LET j == JsonLoads(event.data)
         IN  IF j.ok
             THEN [call EXCEPT !.yielded = Append(@, j.value), !.gen = "suspended"]
             ELSE Finished(call, "error", Error("JSONDecodeError"))

\* The body of _aiter_sse's async for loop on one event.
AiterSseEvent(call, event) ==
    IF event.data = DoneSentinel THEN Finished(call, "sentinel", NoError)
    ELSE LET j == JsonLoads(event.data)
         IN  IF j.ok
             THEN [call EXCEPT !.yielded = Append(@, j.value), !.gen = "suspended"]
             ELSE Finished(call, "error", Error("JSONDecodeError"))

\* for event in event_source.iter_sse(): the source ends, the read fails, or
\* the loop body runs on the next event.
IterSseLoop(call) ==
    LET src == call.world[Len(call.world)].source
        i == call.cursor + 1
    IN  IF i > Len(src) THEN Finished(call, "exhausted", NoError)
        ELSE IF src[i].kind = "reset"
        THEN Finished([call EXCEPT !.cursor = i], "error", Error("ReadError"))
        ELSE IterSseEvent([call EXCEPT !.cursor = i], src[i])

\* async for event in event_source.aiter_sse()
AiterSseLoop(call) ==
    LET src == call.world[Len(call.world)].source
        i == call.cursor + 1
    IN  IF i > Len(src) THEN Finished(call, "exhausted", NoError)
        ELSE IF src[i].kind = "reset"
        THEN Finished([call EXCEPT !.cursor = i], "error", Error("ReadError"))
        ELSE AiterSseEvent([call EXCEPT !.cursor = i], src[i])

IterSseOpen(c, env) ==
    /\ calls[c].mode = "sync"
    /\ calls[c].gen = "created"
    /\ \E o \in StreamOutcomes(env) :
          calls' = [calls EXCEPT ![c] =
                       SseOpen(@, o, GetUrlPart(llm, TRUE), ValueAt(heap, @.kwargs))]
    /\ UNCHANGED <<requested, llm, heap, queries>>

IterSseCheck(c) ==
    /\ calls[c].mode = "sync"
    /\ calls[c].gen = "opened"
    /\ calls' = [calls EXCEPT ![c] = SseCheck(@, RaiseOnError(InitialResponse(@)))]
    /\ UNCHANGED <<requested, llm, heap, queries>>

IterSseRead(c) ==
    /\ calls[c].mode = "sync"
    /\ calls[c].gen = "reading"
    /\ calls' = [calls EXCEPT ![c] = IterSseLoop(@)]
    /\ UNCHANGED <<requested, llm, heap, queries>>

AiterSseOpen(c, env) ==
    /\ calls[c].mode = "async"
    /\ calls[c].gen = "created"
    /\ \E o \in StreamOutcomes(env) :
          calls' = [calls EXCEPT ![c] =
                       SseOpen(@, o, GetUrlPart(llm, TRUE), ValueAt(heap, @.inner))]
    /\ UNCHANGED <<requested, llm, heap, queries>>

AiterSseCheck(c) ==
    /\ calls[c].mode = "async"
    /\ calls[c].gen = "opened"
    /\ calls' = [calls EXCEPT ![c] = SseCheck(@, ARaiseOnError(InitialResponse(@)))]
    /\ UNCHANGED <<requested, llm, heap, queries>>

AiterSseRead(c) ==
    /\ calls[c].mode = "async"
    /\ calls[c].gen = "reading"
    /\ calls' = [calls EXCEPT ![c] = AiterSseLoop(@)]
    /\ UNCHANGED <<requested, llm, heap, queries>>

\* The task awaiting the async generator is cancelled while the generator
\* waits on the network: CancelledError is raised inside the async with.
AiterSseCancelled(c) ==
    /\ calls[c].mode = "async"
    /\ calls[c].gen \in {"opened", "reading"}
    /\ calls' = [calls EXCEPT ![c] = Finished(@, "error", Error("CancelledError"))]
    /\ UNCHANGED <<requested, llm, heap, queries>>

(***************************************************************************)
(* The consumer of a returned sequence.                                    *)
(***************************************************************************)
\* next() / anext() on a generator suspended at its yield.
ConsumerNext(c) ==
    /\ calls[c].gen = "suspended"
    /\ calls' = [calls EXCEPT ![c].gen = "reading"]
    /\ UNCHANGED <<requested, llm, heap, queries>>

\* close() / aclose(): the consumer abandons the sequence. A generator that
\* never ran just ends; one suspended at its yield gets GeneratorExit there,
\* which leaves the with block.
GeneratorCloseLeaks(call) ==
    [call EXCEPT !.gen = "finished", !.ended = "closed"]

GeneratorClose(call) ==
    IF call.gen = "created"
    THEN [call EXCEPT !.gen = "finished", !.ended = "closed"]
    ELSE Finished(call, "closed", NoError)

ConsumerClose(c) ==
    /\ calls[c].gen \in {"created", "suspended"}
    /\ calls' = [calls EXCEPT ![c] = GeneratorClose(@)]
    /\ UNCHANGED <<requested, llm, heap, queries>>

\* The caller drops a call that is over, and with it the objects the call
\* created; the slot serves the next call.
CallOver(call) ==
    \/ call.pc = "raised"
    \/ call.pc = "returned" /\ call.result.kind \in {"record", "params"}
    \/ call.pc = "returned" /\ call.gen = "finished"

Forget(c) ==
    /\ CallOver(calls[c])
    /\ calls' = [calls EXCEPT ![c] = IdleCall]
    /\ heap' = Free(heap, {a \in DOMAIN heap : heap[a].owner = c})
    /\ UNCHANGED <<requested, llm, queries>>

CallNext(c, env) ==
    \/ EnrichCall(c, env)
    \/ SyncCall(c, env)
    \/ SyncPost(c, env)
    \/ AsyncCall(c, env)
    \/ AsyncAttempt(c, env)
    \/ IterSseOpen(c, env)
    \/ IterSseCheck(c)
    \/ IterSseRead(c)
    \/ AiterSseOpen(c, env)
    \/ AiterSseCheck(c)
    \/ AiterSseRead(c)
    \/ AiterSseCancelled(c)
    \/ ConsumerNext(c)
    \/ ConsumerClose(c)
    \/ Forget(c)

(***************************************************************************)
(* Specifications.                                                         *)
(***************************************************************************)
\* One model, one call at a time, every explored input.
Init ==
    /\ requested \in {("model_name" :> n) @@ SiteUs : n \in DispatchNames}
    /\ llm \in {NewModel(r) : r \in 1..MaxRetriesBound}
    /\ urlq = NoQuery
    /\ calls = [c \in CallIds |-> IdleCall]
    /\ heap = MainHeap
    /\ baseq = NoQuery
    /\ tokenq = NoTokenRun
    /\ revalidated = NotRevalidated

Next == Construct \/ CallNext(1, MainEnv)

Spec == Init /\ [][Next]_vars

\* One model, two calls in progress at once.
InitPair ==
    /\ requested = ("model_name" :> CapAt(MistralLargeName, 1)) @@ SiteUs
    /\ llm \in {NewModel(r) : r \in 1..MaxRetriesBound}
    /\ urlq = NoQuery
    /\ calls = [c \in CallIds |-> IdleCall]
    /\ heap = PairHeap
    /\ baseq = NoQuery
    /\ tokenq = NoTokenRun
    /\ revalidated = NotRevalidated

NextPair ==
    \/ Construct
    \/ AskUrlPart
    \/ AskUrl
    \/ \E c \in CallIds : CallNext(c, PairEnv)

SpecPair == InitPair /\ [][NextPair]_vars

\* The resolver and the URL path on every explored identifier.
InitResolve ==
    /\ requested \in {v @@ site : v \in UNION {ConstructorValues(n) : n \in Names},
                                  site \in Sites}
    /\ llm = NewModel(1)
    /\ urlq = NoQuery
    /\ calls = [c \in CallIds |-> IdleCall]
    /\ heap = PairHeap
    /\ baseq = NoQuery
    /\ tokenq = NoTokenRun
    /\ revalidated = NotRevalidated

NextResolve == Construct \/ AskUrlPart \/ AskUrl \/ GetToken \/ Revalidate

SpecResolve == InitResolve /\ [][NextResolve]_vars

(***************************************************************************)
(* Properties of the resolver, the validator and the URL path.             *)
(***************************************************************************)
RequestedName == requested["model_name"]

\* p is the part of n before its first "@" (all of n when it has none).
IsPartBeforeFirstAt(p, n) ==
    \E k \in 0..Len(n) :
        /\ p = SubSeq(n, 1, k)
        /\ "@" \notin Chars(p)
        /\ k = Len(n) \/ n[k + 1] = "@"

\* C7: resolution is case-insensitive exact membership in the two allow-lists:
\* a name that lower-cased is the LLAMA identifier is constructed as LLAMA, one
\* that lower-cased is one of the two MISTRAL identifiers as MISTRAL, and any
\* spelling resolves as its lower-case spelling does.
C7_CaseInsensitiveResolution ==
    llm.phase # "new" =>
        /\ StrLower(RequestedName) = LlamaName
              => llm.phase = "ready" /\ ModelFamilyOf(llm) = "LLAMA"
        /\ StrLower(RequestedName) \in {MistralNemoName, MistralLargeName}
              => llm.phase = "ready" /\ ModelFamilyOf(llm) = "MISTRAL"
        /\ StrLower(RequestedName) \in AllowListed
              => /\ llm.phase = "ready"
                 /\ ModelFamilyOf(llm)
                       = VertexMaaSModelFamily(StrLower(RequestedName)).family

C7_Witness ==
    /\ llm.phase = "ready"
    /\ RequestedName # StrLower(RequestedName)
    /\ RequestedName # StrUpper(RequestedName)
    /\ ModelFamilyOf(llm) = "MISTRAL"

\* C8: every string that is not, ignoring case, an allow-listed identifier
\* fails construction with the unsupported-model error.
C8_OthersRejected ==
    (llm.phase # "new" /\ StrLower(RequestedName) \notin AllowListed)
        => llm.phase = "failed" /\ llm.error = "ValueError"

\* C9: after validation a MISTRAL model's model_name is the requested name up
\* to its first "@" and its full_model_name the requested name; a LLAMA
\* model's model_name is the requested name and the validator leaves
\* full_model_name as the constructor received it (set or not).
C9_CanonicalAndFullName ==
    llm.phase = "ready" =>
        /\ ModelFamilyOf(llm) = "MISTRAL" =>
              /\ IsPartBeforeFirstAt(ModelNameOf(llm), RequestedName)
              /\ "full_model_name" \in DOMAIN llm.values
              /\ llm.values["full_model_name"] = RequestedName
        /\ ModelFamilyOf(llm) = "LLAMA" =>
              /\ ModelNameOf(llm) = RequestedName
              /\ "full_model_name" \in DOMAIN llm.values
                    <=> "full_model_name" \in DOMAIN requested
              /\ "full_model_name" \in DOMAIN requested
                    => llm.values["full_model_name"] = requested["full_model_name"]

C9_Witness ==
    /\ llm.phase = "ready"
    /\ ModelFamilyOf(llm) = "MISTRAL"
    /\ StrLower(RequestedName) = MistralLargeName
    /\ StrLower(ModelNameOf(llm))
          = <<"m", "i", "s", "t", "r", "a", "l", "-", "l", "a", "r", "g", "e">>
    /\ "full_model_name" \in DOMAIN requested

\* C10: _get_url_part gives a MISTRAL model
\* "publishers/mistralai/models/{full_model_name}:streamRawPredict" when
\* streaming and "...:rawPredict" when not, and a LLAMA model
\* "openapi/chat/completions" either way.
C10_UrlPart ==
    urlq.asked =>
        /\ ModelFamilyOf(llm) = "MISTRAL" =>
              urlq.result = MistralUrlPrefix \o RequestedName
                               \o (IF urlq.stream THEN StreamRawPredict ELSE RawPredict)
        /\ ModelFamilyOf(llm) = "LLAMA" => urlq.result = OpenApiPath
        /\ (RequestedName = MistralLargeName /\ ~urlq.stream) =>
              urlq.result =
                 <<"p", "u", "b", "l", "i", "s", "h", "e", "r", "s", "/",
                   "m", "i", "s", "t", "r", "a", "l", "a", "i", "/",
                   "m", "o", "d", "e", "l", "s", "/",
                   "m", "i", "s", "t", "r", "a", "l", "-", "l", "a", "r", "g", "e",
                   "@", "2", "4", "0", "7",
                   ":", "r", "a", "w", "P", "r", "e", "d", "i", "c", "t">>

C10_Witness ==
    /\ urlq.asked
    /\ urlq.stream
    /\ ModelFamilyOf(llm) = "MISTRAL"
    /\ RequestedName = MistralLargeName

(***************************************************************************)
(* Properties of the dispatch.                                             *)
(***************************************************************************)
\* ord(character), and str.encode("utf-8") for one- and two-byte characters.
Ord(ch) == CHOOSE cp \in DOMAIN CodePointChar : CodePointChar[cp] = ch

RECURSIVE Utf8Encode(_)
Utf8Encode(t) ==
    IF t = <<>> THEN <<>>
    ELSE (IF Ord(Head(t)) < 128 THEN <<Ord(Head(t))>>
          ELSE <<192 + (Ord(Head(t)) \div 64), 128 + (Ord(Head(t)) % 64)>>)
         \o Utf8Encode(Tail(t))

Started(call) == call.mode \in {"sync", "async"}

Streaming(call) == call.result.kind = "stream"

LastOutcome(call) == call.world[Len(call.world)]

\* The error the caller of a call sees: raised by the call, or by the
\* consumption of the sequence it returned.
SurfacedError(call) ==
    IF Streaming(call) THEN call.fault ELSE call.result.error

TransportError(e) == IsInstance(e.type, "RequestError")

ErrorStatusAnswer(o) == o.kind = "response" /\ IsErrorStatus(o.status)

\* C1: a non-streaming call, sync or async, whose POST fails at the transport
\* level is re-attempted; the attempts never exceed llm.max_retries; a call
\* that returns returns the decoded record of its last attempt; a transport
\* error surfaces only once every allowed attempt has failed.
C1_TransportErrorRetried ==
    \A c \in CallIds :
        LET call == calls[c]
        IN  (Started(call) /\ ~Streaming(call)) =>
               /\ Len(call.sent) <= llm.max_retries
               /\ call.pc = "returned" =>
                     /\ call.result.kind = "record"
                     /\ Utf8Encode(JsonText(call.result.value.text[1]))
                           = LastOutcome(call).body
               /\ (call.pc = "raised" /\ TransportError(call.result.error)) =>
                     /\ Len(call.sent) = llm.max_retries
                     /\ \A i \in 1..Len(call.world) : call.world[i].kind = "transport"

\* C2: a streaming call whose connection cannot be opened (a transport
\* failure before any event) is re-attempted up to llm.max_retries times,
\* every attempt opening a new connection: the failure surfaces only once
\* llm.max_retries connections were attempted.
C2_StreamOpenRetried ==
    \A c \in CallIds :
        LET call == calls[c]
        IN  (Streaming(call) /\ call.gen = "finished" /\ call.opens = 0
             /\ TransportError(call.fault)) =>
               /\ Len(call.sent) = llm.max_retries
               /\ \A i \in 1..Len(call.sent) : call.sent[i].via = "sse"

\* The error check of the call's last response is over.
Checked(call) ==
    /\ call.world # <<>>
    /\ call.pc = "raised" \/ call.gen \in {"reading", "suspended", "finished"}
    /\ call.fault.type # "CancelledError"

\* C3: an error status (4xx/5xx), on a POST or on the initial response of a
\* stream, sync or async, fails the call with an HTTP status error carrying the
\* status code, the URL and the body text verbatim; nothing is attempted after
\* it and no record is returned or yielded.
C3_ErrorStatusRaised ==
    \A c \in CallIds :
        LET call == calls[c]
        IN  /\ (Checked(call) /\ ErrorStatusAnswer(LastOutcome(call))) =>
                  /\ SurfacedError(call).type = "HTTPStatusError"
                  /\ SurfacedError(call).status = LastOutcome(call).status
                  /\ SurfacedError(call).url = call.sent[Len(call.sent)].url
                  /\ Utf8Encode(SurfacedError(call).text) = LastOutcome(call).body
                  /\ call.result.kind # "record"
                  /\ call.yielded = <<>>
            /\ \A i \in 1..(Len(call.world) - 1) : ~ErrorStatusAnswer(call.world[i])

\* The events of the stream the call is consuming.
SourceOf(call) == LastOutcome(call).source

IsSentinel(item) == item.kind = "event" /\ item.data = DoneSentinel

\* The item is an event whose payload is a JSON document.
Decodable(item) ==
    /\ item.kind = "event"
    /\ \E x \in {"a", "b", "c"} : item.data = JsonText(x)

\* The record a decodable event stands for.
RecordOf(item) == [text |-> <<item.data[Len(JsonHead) + 1]>>]

\* The position of the first item satisfying P, one past the end without one.
FirstWhere(src, P(_)) ==
    IF \E i \in 1..Len(src) : P(src[i])
    THEN CHOOSE i \in 1..Len(src) : P(src[i]) /\ \A j \in 1..(i - 1) : ~P(src[j])
    ELSE Len(src) + 1

StopsStream(item) == ~Decodable(item)

\* The sequence was consumed until it ended by itself.
ConsumedToEnd(call) ==
    /\ Streaming(call)
    /\ call.opens > 0
    /\ ~ErrorStatusAnswer(LastOutcome(call))
    /\ call.gen = "finished"
    /\ call.ended # "closed"
    /\ call.fault.type # "CancelledError"

OnlyEvents(src) == \A i \in 1..Len(src) : src[i].kind = "event"

\* C4 as stated: for any sequence of events the consumed sequence ends
\* normally having yielded one record for every event before the first
\* "[DONE]" (for every event when there is none), and reads nothing after it.
C4_YieldsUpToSentinel ==
    \A c \in CallIds :
        LET call == calls[c]
            src == SourceOf(call)
            done == FirstWhere(src, IsSentinel)
        IN  (ConsumedToEnd(call) /\ OnlyEvents(src)) =>
               /\ Len(call.yielded) = done - 1
               /\ \A i \in 1..(done - 1) : call.yielded[i] = RecordOf(src[i])
               /\ call.fault = NoError
               /\ call.cursor <= done

\* C4 amended: the sequence yields, in order, the records of the events
\* before the first item that is the sentinel, an event whose payload is not
\* JSON, or a failed read, and reads nothing after that item; it ends normally
\* at the sentinel or at the end of the source, and with the decode or the
\* transport error otherwise. With only JSON payloads before the sentinel
\* that is the statement above.
C4_YieldsUpToFirstStop ==
    \A c \in CallIds :
        LET call == calls[c]
            src == SourceOf(call)
            stop == FirstWhere(src, StopsStream)
        IN  (Streaming(call) /\ call.opens > 0) =>
               /\ Len(call.yielded) < stop
               /\ \A i \in 1..Len(call.yielded) : call.yielded[i] = RecordOf(src[i])
               /\ call.cursor <= stop /\ call.cursor <= Len(src)
               /\ Len(call.yielded) <= call.cursor
               /\ ConsumedToEnd(call) =>
                     /\ Len(call.yielded) = stop - 1
                     /\ (stop > Len(src)) => call.ended = "exhausted" /\ call.fault = NoError
                     /\ (stop <= Len(src) /\ IsSentinel(src[stop]))
                           => call.ended = "sentinel" /\ call.fault = NoError
                                 /\ call.cursor = stop
                     /\ (stop <= Len(src) /\ src[stop].kind = "reset")
                           => call.fault.type = "ReadError"
                     /\ (stop <= Len(src) /\ src[stop].kind = "event"
                         /\ ~IsSentinel(src[stop]))
                           => call.fault.type = "JSONDecodeError"

C4_Witness ==
    \E c \in CallIds :
        /\ ConsumedToEnd(calls[c])
        /\ calls[c].ended = "sentinel"
        /\ Len(calls[c].yielded) = 2
        /\ calls[c].cursor = 3
        /\ Len(SourceOf(calls[c])) = 4
        /\ Decodable(SourceOf(calls[c])[4])

\* C5: a sequence that opened its connection releases it on every way out
\* (end of source, sentinel, error status, an exception in the loop, the
\* consumer closing it): a finished sequence never holds an open connection,
\* only a running or suspended one does, and no connection is released twice.
C5_ConnectionReleased ==
    \A c \in CallIds :
        LET call == calls[c]
        IN  /\ call.gen = "finished" => call.conn # "open"
            /\ (call.gen = "finished" /\ call.opens > 0)
                  => call.conn = "closed" /\ call.closes = call.opens
            /\ call.conn = "open"
                  => call.gen \in {"opened", "reading", "suspended"} /\ call.closes = 0
            /\ call.closes <= call.opens
            /\ call.closes <= 1

C5_Witness ==
    \E c \in CallIds :
        /\ calls[c].gen = "finished"
        /\ calls[c].ended = "closed"
        /\ calls[c].yielded # <<>>
        /\ calls[c].opens = 1
        /\ calls[c].conn = "closed"

\* The call and, for a stream, its consumption are over, and the consumer
\* neither abandoned nor cancelled it.
Settled(call) ==
    /\ CallOver(call)
    /\ call.ended # "closed"
    /\ call.fault.type # "CancelledError"

\* Two runs saw the same transport and server behaviour as far as each went.
SameOutcomes(w1, w2) ==
    \A i \in 1..Len(w1) : i <= Len(w2) => w1[i] = w2[i]

\* C6: a sync and an async call with the same parameters under the same
\* transport and server outcomes send the same requests (URL path, body,
\* headers), make the same number of attempts and end alike: the same record
\* or records, or the same kind of error.
C6_SyncAsyncAgree ==
    \A c1, c2 \in CallIds :
        LET s == calls[c1]
            a == calls[c2]
        IN  (/\ s.mode = "sync" /\ a.mode = "async"
             /\ s.params = a.params
             /\ Settled(s) /\ Settled(a)
             /\ SameOutcomes(s.world, a.world)) =>
               /\ s.sent = a.sent
               /\ s.result = a.result
               /\ s.yielded = a.yielded
               /\ s.fault = a.fault

(***************************************************************************)
(* Properties of the request builder.                                      *)
(***************************************************************************)
\* The mapping a call was given, as the caller holds it now.
ArgNow(call) == ValueAt(heap, call.arg)

\* C11: neither _enrich_params nor a dispatch function changes an object of
\* the caller: at every moment every mapping the caller holds, and the list
\* and the message it refers to, is the object it was before any call (same
\* keys, same values, same references), and the mapping a call was given
\* still has the value it had when the call began.
C11_CallerMappingNeverMutated ==
    /\ \A a \in DOMAIN MainHeap : a \in DOMAIN heap /\ heap[a] = MainHeap[a]
    /\ \A c \in CallIds :
          calls[c].arg # 0 => ArgNow(calls[c]) = calls[c].params

C11_Witness ==
    \E c \in CallIds :
        /\ calls[c].mode = "enrich"
        /\ calls[c].pc = "returned"
        /\ HasKey(heap, calls[c].arg, "safe_prompt")
        /\ ArgNow(calls[c])["model"] = OtherModel
        /\ ~HasKey(heap, calls[c].kwargs, "safe_prompt")
        /\ ValueAt(heap, calls[c].kwargs)["model"] = ModelNameOf(llm)
        /\ ValueAt(heap, calls[c].kwargs)["messages"] = Message
        /\ heap[calls[c].kwargs].refs["messages"] # heap[calls[c].arg].refs["messages"]

\* C12: every request a dispatch call sends, on every attempt, carries a
\* payload without "safe_prompt", with "model" equal to llm.model_name
\* whatever the caller passed as "model", and with every other key of the
\* caller's mapping under the caller's value; beyond those keys it carries at
\* most "stream".
C12_PayloadNormalised ==
    \A c \in CallIds :
        LET call == calls[c]
        IN  \A i \in 1..Len(call.sent) :
               LET json == call.sent[i].json
                   passed == (DOMAIN call.params) \ {"safe_prompt", "model"}
               IN  /\ "safe_prompt" \notin DOMAIN json
                   /\ "model" \in DOMAIN json
                   /\ json["model"] = ModelNameOf(llm)
                   /\ \A k \in passed : k \in DOMAIN json /\ json[k] = call.params[k]
                   /\ DOMAIN json \subseteq passed \cup {"model", "stream"}

C12_Witness ==
    \E c \in CallIds :
        /\ calls[c].mode = "async"
        /\ Len(calls[c].sent) = 2
        /\ {"safe_prompt", "model"} \subseteq DOMAIN calls[c].params
        /\ calls[c].params["safe_prompt"] = TRUE
        /\ calls[c].params["model"] = OtherModel
        /\ calls[c].sent[2].json
              = ("messages" :> Message) @@ ("stream" :> FALSE)
                   @@ ("model" :> <<"M", "i", "s", "t", "r", "a", "l", "-",
                                    "l", "a", "r", "g", "e">>)

\* The URL path of a request of the model, by family and dispatch mode.
PathOf(m, sse) ==
    IF ModelFamilyOf(m) = "MISTRAL"
    THEN MistralUrlPrefix \o m.values["full_model_name"]
            \o (IF sse THEN StreamRawPredict ELSE RawPredict)
    ELSE OpenApiPath

\* C13: a call, sync or async, that was not given "stream" behaves as with
\* stream = false; every request carries "stream" in its payload, with the
\* caller's value or false; the request is an SSE connection with the header
\* Accept: text/event-stream on the streaming path exactly when that value is
\* true, and otherwise a plain POST without that header on the non-streaming
\* path.
C13_StreamAgreesWithDispatch ==
    \A c \in CallIds :
        LET call == calls[c]
            asked == IF "stream" \in DOMAIN call.params
                     THEN call.params["stream"] ELSE FALSE
        IN  Started(call) =>
               /\ ~asked => (~Streaming(call) /\ call.gen = "none" /\ ~call.stream)
               /\ Streaming(call) => asked
               /\ \A i \in 1..Len(call.sent) :
                     LET r == call.sent[i]
                     IN  /\ "stream" \in DOMAIN r.json
                         /\ r.json["stream"] = asked
                         /\ r.via \in {"sse", "post"}
                         /\ (r.via = "sse") <=> (r.json["stream"] = TRUE)
                         /\ r.via = "sse" =>
                               /\ r.headers = ("Accept" :> "text/event-stream")
                               /\ r.url = PathOf(llm, TRUE)
                               /\ r.url = GetUrlPart(llm, TRUE)
                         /\ r.via = "post" =>
                               /\ r.headers = <<>>
                               /\ r.url = PathOf(llm, FALSE)
                               /\ r.url = GetUrlPart(llm, FALSE)

C13_Witness ==
    \E c \in CallIds :
        /\ calls[c].mode = "async"
        /\ "stream" \notin DOMAIN calls[c].params
        /\ Len(calls[c].sent) = 1
        /\ calls[c].sent[1].via = "post"
        /\ calls[c].sent[1].json["stream"] = FALSE
        /\ ModelFamilyOf(llm) = "MISTRAL"

(***************************************************************************)
(* Properties of the base URL.                                             *)
(***************************************************************************)
\* C14: get_url returns
\* "https://{location}-aiplatform.googleapis.com/{version}/projects/{project}/locations/{location}"
\* with the location and project the model was constructed with, the same
\* location in the host and in the last segment, and version "v1beta1" when
\* the family is LLAMA and "v1" when it is not.
C14_BaseUrl ==
    baseq.asked =>
        /\ \E version \in {<<"v", "1", "b", "e", "t", "a", "1">>, <<"v", "1">>} :
              /\ (version = <<"v", "1", "b", "e", "t", "a", "1">>) <=> (ModelFamilyOf(llm) = "LLAMA")
              /\ baseq.result
                    = <<"h", "t", "t", "p", "s", ":", "/", "/">> \o requested["location"]
                         \o <<"-", "a", "i", "p", "l", "a", "t", "f", "o", "r", "m", ".", "g", "o", "o", "g", "l", "e", "a", "p", "i", "s", ".", "c", "o", "m", "/">>
                         \o version \o <<"/", "p", "r", "o", "j", "e", "c", "t", "s", "/">> \o requested["project"]
                         \o <<"/", "l", "o", "c", "a", "t", "i", "o", "n", "s", "/">> \o requested["location"]
        /\ (requested["location"] = <<"e", "u">> /\ ModelFamilyOf(llm) = "MISTRAL") =>
              baseq.result =
                 <<"h", "t", "t", "p", "s", ":", "/", "/", "e", "u", "-", "a", "i", "p", "l", "a", "t", "f", "o", "r", "m", ".", "g", "o", "o", "g", "l", "e", "a", "p", "i", "s", ".", "c", "o", "m", "/", "v", "1", "/", "p", "r", "o", "j", "e", "c", "t", "s", "/", "p", "2", "/", "l", "o", "c", "a", "t", "i", "o", "n", "s", "/", "e", "u">>

C14_Witness ==
    /\ baseq.asked
    /\ ModelFamilyOf(llm) = "LLAMA"
    /\ requested["location"] = <<"e", "u">>
    /\ baseq.result =
          <<"h", "t", "t", "p", "s", ":", "/", "/", "e", "u", "-", "a", "i", "p", "l", "a", "t", "f", "o", "r", "m", ".", "g", "o", "o", "g", "l", "e", "a", "p", "i", "s", ".", "c", "o", "m", "/", "v", "1", "b", "e", "t", "a", "1", "/", "p", "r", "o", "j", "e", "c", "t", "s", "/", "p", "2", "/", "l", "o", "c", "a", "t", "i", "o", "n", "s", "/", "e", "u">>

(***************************************************************************)
(* Properties of the order of steps in a streaming call.                   *)
(***************************************************************************)
\* The sequence holds, or held, a connection that answered.
Answered(call) == Streaming(call) /\ call.opens > 0

\* C15: in a stream, sync or async, the status check comes after the open and
\* before the first read: while the check is pending nothing was read or
\* yielded; after the check of an error status the sequence is over with the
\* HTTP status error, nothing read, nothing yielded; after the check of any
\* other status the check raised nothing, and only then are events read.
C15_CheckBeforeFirstEvent ==
    \A c \in CallIds :
        LET call == calls[c]
        IN  Answered(call) =>
               /\ call.gen = "opened" => (call.cursor = 0 /\ call.yielded = <<>>)
               /\ (Checked(call) /\ ErrorStatusAnswer(LastOutcome(call))) =>
                     /\ call.gen = "finished"
                     /\ call.fault.type = "HTTPStatusError"
                     /\ call.cursor = 0
                     /\ call.yielded = <<>>
               /\ (Checked(call) /\ ~ErrorStatusAnswer(LastOutcome(call))) =>
                     call.fault.type \notin {"HTTPStatusError", "UnicodeDecodeError"}
               /\ (call.cursor > 0 \/ call.yielded # <<>>) =>
                     /\ ~ErrorStatusAnswer(LastOutcome(call))
                     /\ call.gen # "opened"

\* The same with the error of the check left open: whatever the check of
\* an error status raises, nothing was read or yielded.
CheckBeforeFirstEventAnyError ==
    \A c \in CallIds :
        LET call == calls[c]
        IN  Answered(call) =>
               /\ call.gen = "opened" => (call.cursor = 0 /\ call.yielded = <<>>)
               /\ (Checked(call) /\ ErrorStatusAnswer(LastOutcome(call))) =>
                     /\ call.gen = "finished"
                     /\ call.fault.type \in {"HTTPStatusError", "UnicodeDecodeError"}
                     /\ call.fault.type = "UnicodeDecodeError"
                           => ~Utf8Decode(LastOutcome(call).body).ok
                     /\ call.cursor = 0
                     /\ call.yielded = <<>>
               /\ (Checked(call) /\ ~ErrorStatusAnswer(LastOutcome(call))) =>
                     call.fault.type \notin {"HTTPStatusError", "UnicodeDecodeError"}
               /\ (call.cursor > 0 \/ call.yielded # <<>>) =>
                     /\ ~ErrorStatusAnswer(LastOutcome(call))
                     /\ call.gen # "opened"

(***************************************************************************)
(* Properties of concurrent calls.                                         *)
(***************************************************************************)
\* The payload a call with these parameters sends when it is the only call.
PayloadAlone(m, params) ==
    [k \in ((DOMAIN params) \ {"safe_prompt"}) \cup {"model", "stream"} |->
        IF k = "model" THEN ModelNameOf(m)
        ELSE IF k = "stream"
        THEN (IF "stream" \in DOMAIN params THEN params["stream"] ELSE FALSE)
        ELSE params[k]]

\* The request a call with these parameters sends when it is the only call.
RequestAlone(m, params) ==
    LET json == PayloadAlone(m, params)
    IN  [via |-> IF json["stream"] THEN "sse" ELSE "post",
         url |-> PathOf(m, json["stream"]),
         json |-> json,
         headers |-> IF json["stream"] THEN ("Accept" :> "text/event-stream")
                     ELSE <<>>]

\* The objects a call keeps for its requests.
Kept(call) ==
    (IF call.kwargs = 0 THEN {} ELSE {call.kwargs})
    \cup (IF call.inner = 0 THEN {} ELSE {call.inner})

\* C16: whatever other call is in progress on the same model, and whether or
\* not it was given the same mapping of the caller, every request of a call
\* is the request the call sends when it runs alone (payload, stream flag,
\* URL path, headers); a streaming call opens at most one connection, which
\* is its own; the dicts a call keeps are its own objects; and the caller's
\* mapping is as it was.
C16_CallsDoNotInterfere ==
    \A c \in CallIds :
        LET call == calls[c]
        IN  Started(call) =>
               /\ \A i \in 1..Len(call.sent) :
                     call.sent[i] = RequestAlone(llm, call.params)
               /\ call.pc # "attempt"
                     => call.stream = PayloadAlone(llm, call.params)["stream"]
               /\ call.opens <= Len(call.sent)
               /\ Streaming(call) => Len(call.sent) <= 1
               /\ \A a \in Kept(call) : a \in DOMAIN heap /\ heap[a].owner = c
               /\ \A d \in CallIds \ {c} : Kept(call) \cap Kept(calls[d]) = {}
               /\ ArgNow(call) = call.params

C16_Witness ==
    /\ calls[1].mode = "sync"
    /\ calls[2].mode = "async"
    /\ calls[1].arg = calls[2].arg
    /\ calls[1].conn = "open"
    /\ calls[2].conn = "open"
    /\ calls[1].sent = calls[2].sent
    /\ calls[1].kwargs # calls[2].inner

(***************************************************************************)
(* Properties of the model configuration.                                  *)
(***************************************************************************)
\* C17: the family, the canonical name and the full name are fixed by the
\* one validation at construction: in every state after it, whatever
\* _enrich_params, _get_url_part, get_url, completion_with_retry and
\* acompletion_with_retry calls ran, returned, failed or were retried, the
\* model holds the values that validation produced from the constructor's
\* arguments, and the resolver ran once.
C17_ConfigurationFrozen ==
    llm.phase = "ready" =>
        /\ llm.resolutions = 1
        /\ llm.values = ValidateEnvironment(requested).values
        /\ RequestedName = CapAt(MistralLargeName, 1) =>
              /\ ModelFamilyOf(llm) = "MISTRAL"
              /\ ModelNameOf(llm) = <<"M", "i", "s", "t", "r", "a", "l", "-",
                                      "l", "a", "r", "g", "e">>
              /\ FullModelNameOf(llm) = RequestedName

C17_Witness ==
    /\ llm.phase = "ready"
    /\ urlq.asked
    /\ baseq.asked
    /\ calls[1].mode = "async" /\ calls[1].pc = "raised" /\ calls[1].tries = 2
    /\ calls[2].mode = "sync" /\ calls[2].gen = "finished" /\ calls[2].yielded # <<>>

(***************************************************************************)
(* Properties of the token helper.                                         *)
(***************************************************************************)
\* C18: a run of _get_token that has credentials refreshes them, once: the
\* supplied ones when credentials were supplied, the default ones when not,
\* and no others. It returns a token only when the refresh left a non-empty
\* token, and then returns that token; when the refresh left no token or an
\* empty one it raises ValueError("Couldn't retrieve a token!"). That error
\* is no instance of a retryable error type, so the retry loop re-attempts
\* after it at no attempt number.
C18_TokenOrMissingTokenError ==
    LET run == tokenq
        other == IF run.supplied THEN "default" ELSE "supplied"
        missing == run.pc = "raised" /\ run.error.type = "ValueError"
    IN  run.pc # "idle" =>
           /\ run.used # "none" =>
                 /\ run.used = (IF run.supplied THEN "supplied" ELSE "default")
                 /\ run.refreshes[run.used] = 1
                 /\ run.refreshes[other] = 0
           /\ run.pc = "returned" =>
                 /\ run.refreshed
                 /\ ~run.held.none /\ run.held.text # <<>>
                 /\ run.result = run.held.text
           /\ (run.refreshed /\ (run.held.none \/ run.held.text = <<>>)) => missing
           /\ (run.refreshed /\ ~run.held.none /\ run.held.text # <<>>)
                 => run.pc = "returned"
           /\ missing =>
                 /\ run.refreshed
                 /\ run.error.text = <<"C", "o", "u", "l", "d", "n", "'", "t", " ", "r", "e", "t", "r", "i", "e", "v", "e", " ", "a", " ", "t", "o", "k", "e", "n", "!">>
                 /\ \A cls \in RetryErrors : ~IsInstance(run.error.type, cls)
                 /\ \A n \in 1..MaxRetriesBound :
                       ~RetryAgain(run.error.type, n, MaxRetriesBound)

C18_Witness ==
    /\ tokenq.pc = "raised"
    /\ tokenq.error.type = "ValueError"
    /\ ~tokenq.supplied
    /\ tokenq.refreshes["default"] = 1
    /\ tokenq.held = TokenText(<<>>)

\* The caller asked the call to stream.
AskedToStream(call) ==
    "stream" \in DOMAIN call.params /\ call.params["stream"] = TRUE

\* C19: a streaming call, sync or async, returns its sequence and never an
\* error, having sent nothing; as long as the sequence was not consumed no
\* request was sent and no connection opened, also when it is closed
\* unconsumed; every failure of a streaming call is raised by the sequence,
\* after the request its consumption sent, never by the call.
C19_StreamReturnsBeforeAnyRequest ==
    \A c \in CallIds :
        LET call == calls[c]
        IN  (Started(call) /\ AskedToStream(call)) =>
               /\ call.pc \in {"attempt", "returned"}
               /\ call.pc = "attempt" =>
                     (call.mode = "async" /\ call.tries = 0 /\ call.sent = <<>>)
               /\ call.pc = "returned" =>
                     /\ Streaming(call)
                     /\ call.result.error = NoError
                     /\ call.tries <= 1
               /\ call.gen \in {"none", "created"} =>
                     /\ call.sent = <<>> /\ call.world = <<>>
                     /\ call.opens = 0 /\ call.conn = "none"
                     /\ call.fault = NoError
               /\ (call.gen = "finished" /\ call.sent = <<>>) =>
                     /\ call.ended = "closed"
                     /\ call.opens = 0 /\ call.fault = NoError
               /\ call.fault # NoError =>
                     /\ call.gen = "finished"
                     /\ Len(call.sent) = 1

C19_Witness ==
    \E c \in CallIds :
        /\ calls[c].mode = "async"
        /\ AskedToStream(calls[c])
        /\ calls[c].pc = "returned"
        /\ calls[c].gen = "finished"
        /\ calls[c].ended = "closed"
        /\ calls[c].sent = <<>>

(***************************************************************************)
(* Properties of a second validation.                                      *)
(***************************************************************************)
\* C20: validating the values the validator produced gives, for a LLAMA
\* model, those same values, and fails, for a MISTRAL model, with the
\* unsupported-model error.
C20_IdempotentForLlamaOnly ==
    revalidated.asked =>
        /\ ModelFamilyOf(llm) = "LLAMA" =>
              revalidated.ok /\ revalidated.values = llm.values
        /\ ModelFamilyOf(llm) = "MISTRAL" =>
              ~revalidated.ok /\ revalidated.error = "ValueError"

\* The same for the models constructed from an allow-listed identifier in
\* any spelling; a model constructed from the member value "2" is a MISTRAL
\* model whose second validation succeeds with the same values.
IdempotenceOnAllowListedNames ==
    revalidated.asked =>
        /\ ModelFamilyOf(llm) = "LLAMA" =>
              revalidated.ok /\ revalidated.values = llm.values
        /\ (ModelFamilyOf(llm) = "MISTRAL" /\ StrLower(RequestedName) \in mistral_models)
              => ~revalidated.ok /\ revalidated.error = "ValueError"
        /\ (ModelFamilyOf(llm) = "MISTRAL" /\ StrLower(RequestedName) \notin mistral_models)
              => /\ RequestedName = EnumValueMISTRAL
                 /\ revalidated.ok /\ revalidated.values = llm.values

=============================================================================
